---- MODULE Spec2Model ----
(***************************************************************************)
(* Pauli algebra of src/utils: PauliString (pauli_string.py),               *)
(* PauliOperator (pauli_operator.py) and KrausOperation                     *)
(* (kraus_operation.py).                                                    *)
(*                                                                          *)
(* Representation.                                                          *)
(*  - a Python tuple of qubit indices is a sequence of naturals;            *)
(*  - a coefficient is a Gaussian integer <<re, im>>; the unit phases       *)
(*    1, i, -1, -i are exact in Python and numpy arithmetic, so this loses  *)
(*    nothing on them;                                                      *)
(*  - a text is a sequence of one-character strings;                        *)
(*  - a call returns a record [err, val]: err = "" and val the value on a   *)
(*    normal return, err the name of the Python exception otherwise;        *)
(*  - a Python object used as a dict key carries its identity (oid):        *)
(*    PauliString defines neither __eq__ nor __hash__, so dict lookup       *)
(*    compares identities.                                                  *)
(***************************************************************************)
EXTENDS Integers, Sequences, FiniteSets, TLC

\* ------------------------------------------------------------------ bounds
\* largest qubit width of the strings the string-level operations are fed
MaxWidth == 2
\* largest qubit width of the triples whose three strings all carry phases;
\* coefficient-1 triples are one qubit wider
AssocWidth == 1

\* qubit width of the keys the PauliOperators are built from
OpWidth == 1
\* largest number of entries of a dict a PauliOperator is built from, and
\* largest number of generators of a KrausOperation
MaxTerms == 2

\* ----------------------------------------------------------------- results
Ok(v) == [err |-> "", val |-> v]
Raise(e) == [err |-> e, val |-> <<>>]

\* the rest of a function after a call: skipped when the call raised
Then(r, Rest(_)) == IF r.err = "" THEN Rest(r.val) ELSE r

\* ------------------------------------------------------------ coefficients
One == <<1, 0>>
ImagI == <<0, 1>>
MinusOne == <<-1, 0>>
MinusI == <<0, -1>>
UnitPhases == {One, ImagI, MinusOne, MinusI}

\* complex multiplication, the * of Python numbers
CMul(a, b) == <<a[1] * b[1] - a[2] * b[2], a[1] * b[2] + a[2] * b[1]>>
CAdd(a, b) == <<a[1] + b[1], a[2] + b[2]>>
CConj(a) == <<a[1], 0 - a[2]>>

\* (1j) ** k for an integer k of either sign
IPow(k) ==
  LET r == ((k % 4) + 4) % 4
  IN CASE r = 0 -> One [] r = 1 -> ImagI [] r = 2 -> MinusOne [] OTHER -> MinusI

\* ------------------------------------------------------------ tuple helpers
Range(s) == {s[k] : k \in DOMAIN s}

SetMax(S) == CHOOSE m \in S : \A n \in S : n <= m

SetMin(S) == CHOOSE m \in S : \A n \in S : m <= n

\* the elements of a finite set of naturals in increasing order
RECURSIVE Ascending(_)
Ascending(S) ==
  IF S = {} THEN <<>> ELSE <<SetMin(S)>> \o Ascending(S \ {SetMin(S)})

\* [i for i in s if i not in drop]
Without(s, drop) ==
  LET Keep(i) == i \notin drop IN SelectSeq(s, Keep)

RECURSIVE SumSeq(_)
SumSeq(s) == IF s = <<>> THEN 0 ELSE Head(s) + SumSeq(Tail(s))

\* ------------------------------------------------------------- PauliString
\* PauliString.__init__.  ysGiven = FALSE stands for ys = None and wGiven =
\* FALSE for qubit_width = None.  set(xs).intersection(set(zs)) iterates small
\* non-negative integers in increasing order.
PauliStringInit(xs, zs, ysGiven, ysArg, coeff, wGiven, wArg) ==
  LET ys == IF ysGiven THEN ysArg ELSE Ascending(Range(xs) \cap Range(zs))
      xs1 == IF ysGiven THEN xs ELSE Without(xs, Range(ys))
      zs1 == IF ysGiven THEN zs ELSE Without(zs, Range(ys))
      all == xs1 \o ys \o zs1
  IN IF ~wGiven /\ all = <<>>
       THEN Raise("ValueError")
       ELSE Ok([xs |-> xs1, zs |-> zs1, ys |-> ys, coeff |-> coeff,
                qubit_width |-> IF wGiven THEN wArg ELSE SetMax(Range(all)) + 1])

\* number of times index i occurs in tuple s
Count(s, i) == Cardinality({k \in DOMAIN s : s[k] = i})

\* PauliString._make_stabilizer: z block then x block, each bit toggled once
\* per occurrence of its index; an index outside the arrays is an IndexError
MakeStabilizer(p, n) ==
  IF \E i \in Range(p.xs) \cup Range(p.ys) \cup Range(p.zs) : i >= n
    THEN Raise("IndexError")
    ELSE Ok([k \in 1..(2 * n) |->
               IF k <= n
                 THEN (Count(p.zs, k - 1) + Count(p.ys, k - 1)) % 2
                 ELSE (Count(p.xs, k - n - 1) + Count(p.ys, k - n - 1)) % 2])

\* np.split(v, 2): the two halves of an even-length vector
FirstHalf(v) == SubSeq(v, 1, Len(v) \div 2)
SecondHalf(v) == SubSeq(v, Len(v) \div 2 + 1, Len(v))

\* PauliString.stabilizer for num_qubits >= 0.  The per-width cache holds the
\* value _make_stabilizer returns for the same immutable fields, so a hit
\* and a miss return the same vector.
Stabilizer(p, n, swap) ==
  IF n < p.qubit_width
    THEN Raise("ValueError")
    ELSE LET m == MakeStabilizer(p, n)
         IN IF m.err # "" THEN m
            ELSE IF swap THEN Ok(SecondHalf(m.val) \o FirstHalf(m.val))
            ELSE m

\* PauliString.from_stabilizer
FromStabilizer(stabilizer, coeff) ==
  IF Len(stabilizer) % 2 # 0
    THEN Raise("ValueError")
    ELSE LET n == Len(stabilizer) \div 2
             zs == Ascending({i \in 0..(n - 1) : stabilizer[i + 1] # 0})
             xs == Ascending({i \in 0..(n - 1) : stabilizer[n + i + 1] # 0})
         IN PauliStringInit(xs, zs, FALSE, <<>>, coeff, TRUE, n)

\* stab_1 ^ stab_2 on 0/1 vectors
XorVec(u, v) == [k \in DOMAIN u |-> (u[k] + v[k]) % 2]

\* pow_vector with the two cross terms exchanged
PowVectorSwapped(s1, s2) ==
  LET zs1 == FirstHalf(s1)
      xs1 == SecondHalf(s1)
      zs2 == FirstHalf(s2)
      xs2 == SecondHalf(s2)
  IN [k \in DOMAIN zs1 |->
        (xs1[k] * zs2[k] - zs1[k] * xs2[k])
          * (1 - 2 * zs1[k] * xs1[k]) * (1 - 2 * zs2[k] * xs2[k])]

\* pow_vector without the two factors that flip the sign on a Y
PowVectorNoY(s1, s2) ==
  LET zs1 == FirstHalf(s1)
      xs1 == SecondHalf(s1)
      zs2 == FirstHalf(s2)
      xs2 == SecondHalf(s2)
  IN [k \in DOMAIN zs1 |-> zs1[k] * xs2[k] - xs1[k] * zs2[k]]

\* the pow_vector of PauliString.__mul__
PowVector(s1, s2) ==
  LET zs1 == FirstHalf(s1)
      xs1 == SecondHalf(s1)
      zs2 == FirstHalf(s2)
      xs2 == SecondHalf(s2)
  IN [k \in DOMAIN zs1 |->
        (zs1[k] * xs2[k] - xs1[k] * zs2[k])
          * (1 - 2 * zs1[k] * xs1[k]) * (1 - 2 * zs2[k] * xs2[k])]

Max2(a, b) == IF a >= b THEN a ELSE b

\* PauliString.__mul__
Mul(p, q) ==
  LET n == Max2(p.qubit_width, q.qubit_width)
      s1 == Stabilizer(p, n, FALSE)
      s2 == Stabilizer(q, n, FALSE)
  IN IF s1.err # "" THEN s1
     ELSE IF s2.err # "" THEN s2
     ELSE FromStabilizer(XorVec(s1.val, s2.val),
                         CMul(CMul(p.coeff, q.coeff),
                              IPow(SumSeq(PowVector(s1.val, s2.val)))))

\* PauliString.symplectic_product
SymplecticProduct(p, q) ==
  LET n == Max2(p.qubit_width, q.qubit_width)
      s1 == Stabilizer(p, n, FALSE)
      s2 == Stabilizer(q, n, TRUE)
  IN IF s1.err # "" THEN s1
     ELSE IF s2.err # "" THEN s2
     ELSE Ok(SumSeq([k \in DOMAIN s1.val |-> s1.val[k] * s2.val[k]]) % 2)

\* PauliString.commutes: bool(symplectic_product)
Commutes(p, q) ==
  LET sp == SymplecticProduct(p, q)
  IN IF sp.err # "" THEN sp ELSE Ok(sp.val # 0)

\* ----------------------------------------------------------------- texts
Digits == <<"0", "1", "2", "3", "4", "5", "6", "7", "8", "9">>

\* f"{i}" for a natural i
RECURSIVE DecText(_)
DecText(i) ==
  IF i < 10 THEN <<Digits[i + 1]>>
  ELSE DecText(i \div 10) \o <<Digits[(i % 10) + 1]>>

\* f"{np.real_if_close(coeff)}" for the unit phases other than 1, which
\* PauliString.__str__ never prints
CoeffText(c) ==
  CASE c = MinusOne -> <<"-", "1", ".", "0">>
    [] c = ImagI -> <<"1", "j">>
    [] c = MinusI -> <<"-", "1", "j">>
    [] OTHER -> <<"1", ".", "0">>

\* the qubit's letter alone, without its index, and I where nothing acts
QubitTextLetter(p, i) ==
  IF i \in Range(p.xs) THEN <<"X">>
  ELSE IF i \in Range(p.ys) THEN <<"Y">>
  ELSE IF i \in Range(p.zs) THEN <<"Z">>
  ELSE <<"I">>

\* the piece PauliString.__str__ appends for qubit i
QubitText(p, i) ==
  IF i \in Range(p.xs) THEN <<"X", "(">> \o DecText(i) \o <<")">>
  ELSE IF i \in Range(p.ys) THEN <<"Y", "(">> \o DecText(i) \o <<")">>
  ELSE IF i \in Range(p.zs) THEN <<"Z", "(">> \o DecText(i) \o <<")">>
  ELSE <<>>

RECURSIVE QubitsText(_, _, _)
QubitsText(p, i, n) ==
  IF i >= n THEN <<>> ELSE QubitText(p, i) \o QubitsText(p, i + 1, n)

\* PauliString.__str__
StrOf(p) ==
  (IF p.coeff = One THEN <<>> ELSE CoeffText(p.coeff) \o <<" ", "*", " ">>)
    \o QubitsText(p, 0, p.qubit_width)

\* str.upper on the letters of the alphabet
Upper(ch) ==
  CASE ch = "x" -> "X" [] ch = "y" -> "Y" [] ch = "z" -> "Z" [] ch = "i" -> "I"
    [] ch = "j" -> "J" [] OTHER -> ch

\* str.strip of blanks
RECURSIVE LStrip(_)
LStrip(t) == IF t # <<>> /\ Head(t) = " " THEN LStrip(Tail(t)) ELSE t

RECURSIVE RStrip(_)
RStrip(t) ==
  IF t # <<>> /\ t[Len(t)] = " " THEN RStrip(SubSeq(t, 1, Len(t) - 1)) ELSE t

\* int(s), then float(s), then complex(s), on the numerals the texts of this
\* model can hold; every other text fails all three parses
ParseCoeff(t) ==
  LET s == RStrip(LStrip(t))
  IN CASE s = <<"1">> -> Ok(One)
       [] s = <<"-", "1">> -> Ok(MinusOne)
       [] s = <<"1", ".", "0">> -> Ok(One)
       [] s = <<"-", "1", ".", "0">> -> Ok(MinusOne)
       [] s = <<"1", "j">> -> Ok(ImagI)
       [] s = <<"-", "1", "j">> -> Ok(MinusI)
       [] OTHER -> Raise("ValueError")

\* positions of "*" in a text
Stars(t) == {k \in DOMAIN t : t[k] = "*"}

\* the indices i with pauli_string.upper()[i] = letter, in increasing order
LetterIndices(t, letter) ==
  Ascending({k - 1 : k \in {j \in DOMAIN t : Upper(t[j]) = letter}})

\* PauliString.from_string
FromString(string) ==
  LET star == Stars(string)
      k == IF star = {} THEN 0 ELSE SetMin(star)
      coeff == IF star = {} THEN Ok(One) ELSE ParseCoeff(SubSeq(string, 1, k - 1))
      pauli_string == IF star = {} THEN string ELSE SubSeq(string, k + 1, Len(string))
  IN IF Cardinality(star) > 1 THEN Raise("ValueError")
     ELSE IF coeff.err # "" THEN coeff
     ELSE IF \E j \in DOMAIN pauli_string :
               Upper(pauli_string[j]) \notin {"X", "Y", "Z", "I"}
       THEN Raise("ValueError")
     ELSE PauliStringInit(LetterIndices(pauli_string, "X"),
                          LetterIndices(pauli_string, "Z"),
                          TRUE, LetterIndices(pauli_string, "Y"),
                          coeff.val, TRUE, Len(pauli_string))

\* ----------------------------------------------------------- PauliOperator
\* A dict {PauliString: coefficient} is the sequence of its entries in
\* insertion order, each [oid, key, val]: oid is the identity of the key
\* object.  PauliString defines neither __eq__ nor __hash__, so `p in d` and
\* d[p] find an entry only by the identity of p.
MaxOid(d) == IF d = <<>> THEN 0 ELSE SetMax({d[k].oid : k \in DOMAIN d})

\* copy.deepcopy of a dict: every key is a new object, above every oid in use
DeepCopy(d, base) == [k \in DOMAIN d |-> [d[k] EXCEPT !.oid = base + k]]

\* `if p in d.keys(): d[p] += c  else: d[p] = c`
Accumulate(d, oid, key, val) ==
  IF \E k \in DOMAIN d : d[k].oid = oid
    THEN [k \in DOMAIN d |->
            IF d[k].oid = oid THEN [d[k] EXCEPT !.val = CAdd(@, val)] ELSE d[k]]
    ELSE Append(d, [oid |-> oid, key |-> key, val |-> val])

\* PauliOperator.__init__: the two assertions, and the first key's width
PauliOperatorInit(d) ==
  IF \E k \in DOMAIN d : d[k].key.coeff # One
    THEN Raise("AssertionError")
  ELSE IF d = <<>>
    THEN Raise("IndexError")
  ELSE IF \E k \in DOMAIN d : d[k].key.qubit_width # d[1].key.qubit_width
    THEN Raise("AssertionError")
  ELSE Ok([pairs |-> d, num_qubits |-> d[1].key.qubit_width])

\* the loop of PauliOperator.__add__ over other's entries
RECURSIVE AddAll(_, _)
AddAll(new, rest) ==
  IF rest = <<>> THEN new
  ELSE AddAll(Accumulate(new, Head(rest).oid, Head(rest).key, Head(rest).val),
              Tail(rest))

\* PauliOperator.__add__, other a PauliOperator
OpAdd(P, Q) ==
  PauliOperatorInit(
    AddAll(DeepCopy(P.pairs, Max2(MaxOid(P.pairs), MaxOid(Q.pairs))), Q.pairs))

\* PauliOperator.__add__, other a PauliString whose identity is soid
OpAddString(P, str, soid) ==
  PauliOperatorInit(
    Accumulate(DeepCopy(P.pairs, Max2(MaxOid(P.pairs), soid)), soid, str, One))

\* PauliOperator.__add__, other a number: the identity string is a new
\* object, and where it is no key the statement
\* `new_string_coeff_pairs[identity_string] == other` looks the key up
OpAddScalar(P, other) ==
  LET base == MaxOid(P.pairs)
      identity_string == PauliStringInit(<<>>, <<>>, FALSE, <<>>, One, TRUE, P.num_qubits).val
      new == DeepCopy(P.pairs, base + 1)
  IN IF \E k \in DOMAIN new : new[k].oid = base + 1
       THEN PauliOperatorInit(Accumulate(new, base + 1, identity_string, other))
       ELSE Raise("KeyError")

\* PauliOperator.__radd__
OpRAdd(P, other) == OpAddScalar(P, other)

\* new_string.normalized: PauliString has no attribute of that name
Normalized(p) == Raise("AttributeError")

\* the body of the loops of PauliOperator.__mul__ and __rmul__ for the product
\* left * right of two keys with coefficient c, into the dict new
MulStep(new, left, right, c, oid) ==
  LET Store(new_string) ==
        LET Insert(key) == Ok(Accumulate(new, oid, key, CMul(c, new_string.coeff)))
        IN Then(Normalized(new_string), Insert)
  IN Then(Mul(left, right), Store)

\* the nested loops of PauliOperator.__mul__ from their k-th iteration on:
\* self's entries in the outer loop, other's in the inner one
RECURSIVE MulLoop(_, _, _, _, _)
MulLoop(P, Q, k, new, base) ==
  IF k > Len(P.pairs) * Len(Q.pairs) THEN Ok(new)
  ELSE LET i == ((k - 1) \div Len(Q.pairs)) + 1
           j == ((k - 1) % Len(Q.pairs)) + 1
           Rest(d) == MulLoop(P, Q, k + 1, d, base)
       IN Then(MulStep(new, P.pairs[i].key, Q.pairs[j].key,
                       CMul(P.pairs[i].val, Q.pairs[j].val), base + k),
               Rest)

\* PauliOperator.__mul__, other a PauliOperator
OpMul(P, Q) ==
  Then(MulLoop(P, Q, 1, <<>>, Max2(MaxOid(P.pairs), MaxOid(Q.pairs))),
       PauliOperatorInit)

\* the loop over self's entries of __mul__ (right = TRUE: P * str) and of
\* __rmul__ (right = FALSE: str * P), other a PauliString
RECURSIVE MulStringLoop(_, _, _, _, _, _)
MulStringLoop(P, str, right, i, new, base) ==
  IF i > Len(P.pairs) THEN Ok(new)
  ELSE LET Rest(d) == MulStringLoop(P, str, right, i + 1, d, base)
       IN Then(MulStep(new,
                       IF right THEN P.pairs[i].key ELSE str,
                       IF right THEN str ELSE P.pairs[i].key,
                       P.pairs[i].val, base + i),
               Rest)

\* PauliOperator.__mul__, other a PauliString
OpMulString(P, str) ==
  Then(MulStringLoop(P, str, TRUE, 1, <<>>, MaxOid(P.pairs) + 1), PauliOperatorInit)

\* PauliOperator.__rmul__, other a PauliString
OpRMulString(P, str) ==
  Then(MulStringLoop(P, str, FALSE, 1, <<>>, MaxOid(P.pairs) + 1), PauliOperatorInit)

\* PauliOperator.__mul__ and __rmul__, other a number: the keys are kept
OpMulScalar(P, other) ==
  PauliOperatorInit([k \in DOMAIN P.pairs |->
                       [P.pairs[k] EXCEPT !.val = CMul(@, other)]])

\* PauliOperator.adjoint
Adjoint(P) ==
  PauliOperatorInit([k \in DOMAIN P.pairs |-> [P.pairs[k] EXCEPT !.val = CConj(@)]])

\* ---------------------------------------------------------- KrausOperation
\* KrausOperation.__init__: the list is stored as given, with its adjoints
KrausInit(operators) ==
  Ok([operators |-> operators,
      adjoint_operators |-> [k \in DOMAIN operators |-> Adjoint(operators[k]).val]])

\* the value of res in KrausOperation.__call__: the int 0 or a PauliOperator
IntRes(n) == [kind |-> "int", n |-> n, op |-> [pairs |-> <<>>, num_qubits |-> 0]]
OpRes(P) == [kind |-> "operator", n |-> <<0, 0>>, op |-> P]

\* the loop of KrausOperation.__call__ from generator i on:
\* res += op * operator * op_dag, where 0 + P is P.__radd__(0)
RECURSIVE KrausLoop(_, _, _, _)
KrausLoop(K, operator, i, res) ==
  IF i > Len(K.operators) THEN Ok(res)
  ELSE LET TimesDag(left) == OpMul(left, K.adjoint_operators[i])
           AddTo(term) == IF res.kind = "int" THEN OpRAdd(term, res.n)
                          ELSE OpAdd(res.op, term)
           Rest(sum) == KrausLoop(K, operator, i + 1, OpRes(sum))
       IN Then(Then(Then(OpMul(K.operators[i], operator), TimesDag), AddTo), Rest)

\* KrausOperation.__call__ on a PauliOperator
KrausCall(K, operator) == KrausLoop(K, operator, 1, IntRes(<<0, 0>>))

\* KrausOperation.__call__ on a PauliString: operator.normalized comes first
KrausCallString(K, str) ==
  LET Wrap(key) == PauliOperatorInit(<<[oid |-> 1, key |-> key, val |-> str.coeff]>>)
      Apply(operator) == KrausCall(K, operator)
  IN Then(Then(Normalized(str), Wrap), Apply)

\* ------------------------------------------------------------------ inputs
\* texts of exactly n characters over an alphabet
RECURSIVE TextsOfLen(_, _)
TextsOfLen(alphabet, n) ==
  IF n = 0 THEN {<<>>}
  ELSE {<<ch>> \o t : ch \in alphabet, t \in TextsOfLen(alphabet, n - 1)}

TextsUpTo(alphabet, n) == UNION {TextsOfLen(alphabet, k) : k \in 0..n}

\* pure letter sequences, one letter per qubit
LetterTexts == TextsUpTo({"X", "Y", "Z", "I"}, MaxWidth)

\* what from_string is fed: letter sequences in either case, with and without
\* a coefficient prefix, and texts with a character it rejects
InputTexts ==
  LetterTexts
    \cup {<<"x">>, <<"i", "z">>, <<"Q">>, <<"X", "(", "0", ")">>}
    \cup {pre \o t : pre \in {<<"-", "1", "*">>, <<"1", "j", "*">>,
                               <<"-", "1", "j", "*">>, <<"q", "*">>,
                               <<"1", "*", "1", "*">>},
                     t \in TextsUpTo({"X", "Y", "Z", "I"}, 1)}

\* the tuples of qubit indices the constructor is fed
IndexTuples == {Ascending(S) : S \in SUBSET (0..(MaxWidth - 1))}

\* bit vectors of every length up to 2 * MaxWidth, odd lengths included
BitVectors == TextsUpTo({0, 1}, 2 * MaxWidth)

\* the strings from_string builds from pure letter sequences
LetterStrings == {FromString(t).val : t \in LetterTexts}

\* the second operand of a product or a commutation query: the identity and
\* the single-qubit Paulis X(k), Y(k), Z(k) of every width up to MaxWidth;
\* their products are all the Pauli strings
Operands ==
  {p \in LetterStrings : Len(p.xs) + Len(p.ys) + Len(p.zs) <= 1}

\* the coefficients the constructor is fed
ConstructCoeffs == {One, MinusI}

\* the identity on zero qubits, the value of from_string("")
EmptyString == FromString(<<>>).val

\* -------------------------------------------------------------------- state
\* A session builds a string (last.op = "start" marks the point where nothing
\* has been built yet) and then operates on it.
VARIABLES
  cur,    \* the PauliString the string-level operations act on
  last,   \* the last string-level call: its name, arguments and result
  acc,    \* the PauliOperator the operator-level operations act on
  kraus,  \* the KrausOperation built last
  olast   \* the last operator-level call: its name, arguments and result

vars == <<cur, last, acc, kraus, olast>>
strvars == <<cur, last>>
opvars == <<acc, kraus, olast>>

NoOperator == [pairs |-> <<>>, num_qubits |-> 0]
NoKraus == [operators |-> <<>>, adjoint_operators |-> <<>>]

\* the record of an operator-level call, every field at its default
OCall(op) ==
  [op |-> op, err |-> "", a |-> NoOperator, b |-> NoOperator, s |-> <<0, 0>>,
   str |-> FromString(<<>>).val, list |-> <<>>, kind |-> "operator",
   res |-> NoOperator]

OpIdle ==
  /\ acc = NoOperator
  /\ kraus = NoKraus
  /\ olast = OCall("start")

NoArgs == [xs |-> <<>>, zs |-> <<>>, ysGiven |-> FALSE, ys |-> <<>>,
           wGiven |-> FALSE, w |-> 0]

\* the record of a call, every field at its default
Call(op) ==
  [op |-> op, err |-> "", a |-> EmptyString, b |-> EmptyString,
   c |-> EmptyString, res |-> EmptyString, res2 |-> EmptyString,
   args |-> NoArgs, text |-> <<>>, out |-> <<>>, n |-> 0, flag |-> FALSE]

\* a string has been built or multiplied; a query leaves the string as it is
\* and ends the session
Operating == last.op \in {"init", "from_string", "from_stabilizer", "mul"}

\* the value a call returned, or the default when it raised
ValOr(r, d) == IF r.err = "" THEN r.val ELSE d

StrIdle ==
  /\ cur = EmptyString
  /\ last = Call("start")

Init == StrIdle /\ OpIdle

\* PauliString(xs, zs, ys, coeff, qubit_width), with and without ys and width
Construct ==
  /\ UNCHANGED opvars
  /\ last.op = "start"
  /\ \E xs \in IndexTuples, zs \in IndexTuples, ys \in IndexTuples,
        ysGiven \in BOOLEAN, coeff \in ConstructCoeffs,
        wGiven \in BOOLEAN, w \in 0..MaxWidth :
       /\ (~ysGiven => ys = <<>>)
       /\ (~wGiven => w = 0)
       /\ LET r == PauliStringInit(xs, zs, ysGiven, ys, coeff, wGiven, w)
          IN /\ cur' = ValOr(r, cur)
             /\ last' = [Call("init") EXCEPT
                           !.err = r.err, !.res = ValOr(r, EmptyString),
                           !.args = [xs |-> xs, zs |-> zs, ysGiven |-> ysGiven,
                                     ys |-> ys, wGiven |-> wGiven, w |-> w]]

\* PauliString.from_string(text)
DoFromString ==
  /\ UNCHANGED opvars
  /\ last.op = "start"
  /\ \E t \in InputTexts :
       LET r == FromString(t)
       IN /\ cur' = ValOr(r, cur)
          /\ last' = [Call("from_string") EXCEPT
                        !.err = r.err, !.res = ValOr(r, EmptyString), !.text = t]

\* PauliString.from_stabilizer(bits, coeff)
DoFromStabilizer ==
  /\ UNCHANGED opvars
  /\ last.op = "start"
  /\ \E bits \in BitVectors, coeff \in UnitPhases :
       LET r == FromStabilizer(bits, coeff)
       IN /\ cur' = ValOr(r, cur)
          /\ last' = [Call("from_stabilizer") EXCEPT
                        !.err = r.err, !.res = ValOr(r, EmptyString), !.out = bits]

\* cur * q
DoMul ==
  /\ UNCHANGED opvars
  /\ Operating
  /\ \E q \in Operands :
       LET r == Mul(cur, q)
       IN /\ cur' = ValOr(r, cur)
          /\ last' = [Call("mul") EXCEPT
                        !.err = r.err, !.res = ValOr(r, EmptyString),
                        !.a = cur, !.b = q]

\* cur.symplectic_product(q) and cur.commutes(q)
DoCommutes ==
  /\ UNCHANGED opvars
  /\ Operating
  /\ \E q \in Operands :
       LET sp == SymplecticProduct(cur, q)
           cm == Commutes(cur, q)
       IN /\ cur' = cur
          /\ last' = [Call("commutes") EXCEPT
                        !.err = cm.err, !.a = cur, !.b = q,
                        !.n = ValOr(sp, 0), !.flag = ValOr(cm, FALSE)]

\* p = from_string(t) for a pure letter sequence t, then from_string(str(p))
DoRoundTrip ==
  /\ UNCHANGED opvars
  /\ last.op = "start"
  /\ \E t \in LetterTexts :
       LET p == FromString(t).val
           r == FromString(StrOf(p))
       IN /\ cur' = cur
          /\ last' = [Call("roundtrip") EXCEPT
                        !.err = r.err, !.res = ValOr(r, EmptyString),
                        !.a = p, !.text = t, !.out = StrOf(p)]

\* str(cur)
DoStr ==
  /\ UNCHANGED opvars
  /\ Operating
  /\ cur' = cur
  /\ last' = [Call("str") EXCEPT !.a = cur, !.out = StrOf(cur)]

Next ==
  \/ Construct
  \/ DoFromString
  \/ DoFromStabilizer
  \/ DoMul
  \/ DoCommutes
  \/ DoRoundTrip
  \/ DoStr

Spec == Init /\ [][Next]_vars

\* the sessions that build their strings with from_string alone
NextLetters ==
  \/ DoFromString
  \/ DoMul
  \/ DoCommutes
  \/ DoRoundTrip
  \/ DoStr

SpecLetters == Init /\ [][NextLetters]_vars

\* ---------------------------------------------------- operator-level inputs
\* the texts the keys are parsed from: the letter sequences of OpWidth qubits
\* with at most one letter that is not I, one that is a qubit wider, and one
\* with a coefficient
OpKeyTexts ==
  {t \in TextsOfLen({"X", "Y", "Z", "I"}, OpWidth) :
     Cardinality({k \in DOMAIN t : t[k] # "I"}) <= 1}
    \cup {<<"X">> \o [k \in 1..OpWidth |-> "I"]}
    \cup {<<"-", "1", "*">> \o [k \in 1..OpWidth |-> "X"]}

OpCoeffs == {MinusOne, ImagI}

Scalars == {<<2, 0>>, ImagI}

\* dict literals {from_string(t): c, ...}: every key a new object
RECURSIVE DictsOfLen(_)
DictsOfLen(n) ==
  IF n = 0 THEN {<<>>}
  ELSE {Append(d, [oid |-> n, key |-> FromString(t).val, val |-> c]) :
          d \in DictsOfLen(n - 1), t \in OpKeyTexts, c \in OpCoeffs}

DictInputs == UNION {DictsOfLen(n) : n \in 0..MaxTerms}

\* the PauliOperators the constructor accepts among them
ValidOperators ==
  {PauliOperatorInit(d).val : d \in {e \in DictInputs : PauliOperatorInit(e).err = ""}}

\* the Kraus generators: one-term operators
KrausGenerators == {P \in ValidOperators : Len(P.pairs) = 1}

KrausLists == UNION {[1..n -> KrausGenerators] : n \in 0..MaxTerms}

\* the PauliStrings an operator is added to or multiplied by
StringOperands == {FromString(t).val : t \in OpKeyTexts}

\* another object's keys: identities above those of the n objects before it
Shifted(P, n) ==
  [P EXCEPT !.pairs = [k \in DOMAIN P.pairs |-> [P.pairs[k] EXCEPT !.oid = n + k]]]

\* The identities of a dict's keys are compared only for equality, so the
\* entries of a result are renumbered 1, 2, ... in insertion order.
Renumber(P) == Shifted(P, 0)

\* ------------------------------------------------- operator-level operations
\* A session builds an operator and then operates on it: an operator has been
\* built and nothing has been called on it yet
OpReady == olast.op = "new" /\ olast.err = ""

\* the operator a call returned, renumbered, or the default when it raised
OpValOr(r, d) == IF r.err = "" THEN Renumber(r.val) ELSE d

\* PauliOperator(d)
NewOperator ==
  /\ UNCHANGED <<strvars, kraus>>
  /\ olast.op = "start"
  /\ \E d \in DictInputs :
       LET r == PauliOperatorInit(d)
       IN /\ acc' = OpValOr(r, acc)
          /\ olast' = [OCall("new") EXCEPT !.err = r.err, !.res = OpValOr(r, NoOperator)]

\* acc + Q
DoOpAdd ==
  /\ UNCHANGED <<strvars, kraus>>
  /\ OpReady
  /\ \E Q0 \in ValidOperators :
       LET Q == Shifted(Q0, Len(acc.pairs))
           r == OpAdd(acc, Q)
       IN /\ acc' = OpValOr(r, acc)
          /\ olast' = [OCall("add") EXCEPT
                         !.err = r.err, !.a = acc, !.b = Q,
                         !.res = OpValOr(r, NoOperator)]

\* acc + acc
DoOpAddSelf ==
  /\ UNCHANGED <<strvars, kraus>>
  /\ OpReady
  /\ LET r == OpAdd(acc, acc)
     IN /\ acc' = OpValOr(r, acc)
        /\ olast' = [OCall("add_self") EXCEPT
                       !.err = r.err, !.a = acc, !.b = acc,
                       !.res = OpValOr(r, NoOperator)]

\* acc + str
DoOpAddString ==
  /\ UNCHANGED <<strvars, kraus>>
  /\ OpReady
  /\ \E str \in StringOperands :
       LET r == OpAddString(acc, str, Len(acc.pairs) + 1)
       IN /\ acc' = OpValOr(r, acc)
          /\ olast' = [OCall("add_string") EXCEPT
                         !.err = r.err, !.a = acc, !.str = str,
                         !.res = OpValOr(r, NoOperator)]

\* acc + s and s + acc
DoOpAddScalar ==
  /\ UNCHANGED <<strvars, kraus>>
  /\ OpReady
  /\ \E s \in Scalars, reflected \in BOOLEAN :
       LET r == IF reflected THEN OpRAdd(acc, s) ELSE OpAddScalar(acc, s)
       IN /\ acc' = OpValOr(r, acc)
          /\ olast' = [OCall(IF reflected THEN "radd_scalar" ELSE "add_scalar") EXCEPT
                         !.err = r.err, !.a = acc, !.s = s,
                         !.res = OpValOr(r, NoOperator)]

\* acc * Q
DoOpMul ==
  /\ UNCHANGED <<strvars, kraus>>
  /\ OpReady
  /\ \E Q0 \in ValidOperators :
       LET Q == Shifted(Q0, Len(acc.pairs))
           r == OpMul(acc, Q)
       IN /\ acc' = OpValOr(r, acc)
          /\ olast' = [OCall("mul") EXCEPT
                         !.err = r.err, !.a = acc, !.b = Q,
                         !.res = OpValOr(r, NoOperator)]

\* acc * str and str * acc
DoOpMulString ==
  /\ UNCHANGED <<strvars, kraus>>
  /\ OpReady
  /\ \E str \in StringOperands, reflected \in BOOLEAN :
       LET r == IF reflected THEN OpRMulString(acc, str) ELSE OpMulString(acc, str)
       IN /\ acc' = OpValOr(r, acc)
          /\ olast' = [OCall(IF reflected THEN "rmul_string" ELSE "mul_string") EXCEPT
                         !.err = r.err, !.a = acc, !.str = str,
                         !.res = OpValOr(r, NoOperator)]

\* acc * s
DoOpMulScalar ==
  /\ UNCHANGED <<strvars, kraus>>
  /\ OpReady
  /\ \E s \in Scalars :
       LET r == OpMulScalar(acc, s)
       IN /\ acc' = OpValOr(r, acc)
          /\ olast' = [OCall("mul_scalar") EXCEPT
                         !.err = r.err, !.a = acc, !.s = s,
                         !.res = OpValOr(r, NoOperator)]

\* acc.adjoint
DoAdjoint ==
  /\ UNCHANGED <<strvars, kraus>>
  /\ OpReady
  /\ LET r == Adjoint(acc)
     IN /\ acc' = OpValOr(r, acc)
        /\ olast' = [OCall("adjoint") EXCEPT
                       !.err = r.err, !.a = acc, !.res = OpValOr(r, NoOperator)]

\* KrausOperation(list)
DoKrausInit ==
  /\ UNCHANGED <<strvars, acc>>
  /\ OpReady
  /\ \E list \in KrausLists :
       LET r == KrausInit(list)
       IN /\ kraus' = IF r.err = "" THEN r.val ELSE kraus
          /\ olast' = [OCall("kraus_init") EXCEPT !.err = r.err, !.list = list]

\* kraus(acc)
DoKrausCall ==
  /\ UNCHANGED <<strvars, acc, kraus>>
  /\ olast.op = "kraus_init" /\ olast.err = ""
  /\ LET r == KrausCall(kraus, acc)
     IN olast' = [OCall("apply") EXCEPT
                    !.err = r.err, !.a = acc, !.list = kraus.operators,
                    !.kind = IF r.err = "" THEN r.val.kind ELSE "none",
                    !.res = IF r.err = "" /\ r.val.kind = "operator"
                              THEN Renumber(r.val.op) ELSE NoOperator]

\* kraus(str)
DoKrausCallString ==
  /\ UNCHANGED <<strvars, acc, kraus>>
  /\ olast.op = "kraus_init" /\ olast.err = ""
  /\ \E str \in StringOperands :
       LET r == KrausCallString(kraus, str)
       IN olast' = [OCall("apply_string") EXCEPT
                      !.err = r.err, !.str = str, !.list = kraus.operators,
                      !.kind = IF r.err = "" THEN r.val.kind ELSE "none",
                      !.res = IF r.err = "" /\ r.val.kind = "operator"
                                THEN Renumber(r.val.op) ELSE NoOperator]

NextOp ==
  \/ NewOperator
  \/ DoOpAdd
  \/ DoOpAddSelf
  \/ DoOpAddString
  \/ DoOpAddScalar
  \/ DoOpMul
  \/ DoOpMulString
  \/ DoOpMulScalar
  \/ DoAdjoint
  \/ DoKrausInit
  \/ DoKrausCall
  \/ DoKrausCallString

SpecOp == Init /\ [][NextOp]_vars

\* ------------------------------------------------------------ associativity
\* every string of width w with coefficient k: each qubit I, X, Y or Z
StringsOfWidth(w, coeffs) ==
  {PauliStringInit(p.xs, p.zs, TRUE, p.ys, k, TRUE, w).val :
     p \in {FromString(t).val : t \in TextsOfLen({"X", "Y", "Z", "I"}, w)},
     k \in coeffs}

\* (a * b) * c
MulLeft(a, b, c) ==
  LET ab == Mul(a, b) IN IF ab.err # "" THEN ab ELSE Mul(ab.val, c)

\* a * (b * c)
MulRight(a, b, c) ==
  LET bc == Mul(b, c) IN IF bc.err # "" THEN bc ELSE Mul(a, bc.val)

\* the strings of width w with at most one qubit that is not I
LightStrings(w, coeffs) ==
  {p \in StringsOfWidth(w, coeffs) : Len(p.xs) + Len(p.ys) + Len(p.zs) <= 1}

\* the operands of the triples of width w. Up to AssocWidth: every string,
\* the first with every unit phase, the second and third with 1 or i. One
\* qubit wider: coefficient 1, the third with at most one qubit that is not I
FirstOperands(w) ==
  StringsOfWidth(w, IF w <= AssocWidth THEN UnitPhases ELSE {One})

SecondOperands(w) ==
  StringsOfWidth(w, IF w <= AssocWidth THEN {One, ImagI} ELSE {One})

ThirdOperands(w) ==
  IF w <= AssocWidth THEN StringsOfWidth(w, {One, ImagI})
  ELSE LightStrings(w, {One})

InitAssoc == StrIdle /\ OpIdle

\* both bracketings of the product of three strings of one width
Associate ==
  /\ UNCHANGED opvars
  /\ last.op = "start"
  /\ \E w \in 1..(AssocWidth + 1) :
       \E a \in FirstOperands(w), b \in SecondOperands(w), c \in ThirdOperands(w) :
         LET l == MulLeft(a, b, c)
             r == MulRight(a, b, c)
         IN /\ cur' = ValOr(l, cur)
            /\ last' = [Call("assoc") EXCEPT
                          !.a = a, !.b = b, !.c = c,
                          !.err = IF l.err # "" THEN l.err ELSE r.err,
                          !.res = ValOr(l, EmptyString),
                          !.res2 = ValOr(r, EmptyString)]

NextAssoc == Associate

SpecAssoc == InitAssoc /\ [][NextAssoc]_vars

\* C9: both bracketings of a product of three strings of one width return the
\* same xs, ys, zs, qubit_width and coefficient, and neither raises
AssocHolds ==
  last.op = "assoc" =>
    /\ last.err = ""
    /\ last.res.xs = last.res2.xs
    /\ last.res.ys = last.res2.ys
    /\ last.res.zs = last.res2.zs
    /\ last.res.qubit_width = last.res2.qubit_width
    /\ last.res.coeff = last.res2.coeff

\* ------------------------------------------------------- string-level properties
\* the single-qubit Paulis from_string builds from one letter
SinglePauli(letter) == FromString(<<letter>>).val

IsSinglePauli(p) == \E l \in {"I", "X", "Y", "Z"} : p = SinglePauli(l)

LetterOf(p) ==
  IF p.xs # <<>> THEN "X" ELSE IF p.ys # <<>> THEN "Y"
  ELSE IF p.zs # <<>> THEN "Z" ELSE "I"

\* the Pauli multiplication table: the letter of a * b
TableLetter(a, b) ==
  CASE a = "I" -> b
    [] b = "I" -> a
    [] a = b -> "I"
    [] {a, b} = {"X", "Y"} -> "Z"
    [] {a, b} = {"Y", "Z"} -> "X"
    [] OTHER -> "Y"

\* the Pauli multiplication table: the phase of a * b
TablePhase(a, b) ==
  CASE a = "I" \/ b = "I" \/ a = b -> One
    [] <<a, b>> \in {<<"X", "Y">>, <<"Y", "Z">>, <<"Z", "X">>} -> ImagI
    [] OTHER -> MinusI

\* C1: the product of two single-qubit Paulis of coefficient 1 is the entry of
\* the Pauli multiplication table, generator and phase, and its stabilizer
\* vector is the bitwise XOR of the operands' vectors
TableHolds ==
  (last.op = "mul" /\ IsSinglePauli(last.a) /\ IsSinglePauli(last.b)) =>
    /\ last.err = ""
    /\ last.res.qubit_width = 1
    /\ LetterOf(last.res) = TableLetter(LetterOf(last.a), LetterOf(last.b))
    /\ last.res = [SinglePauli(LetterOf(last.res)) EXCEPT
                     !.coeff = TablePhase(LetterOf(last.a), LetterOf(last.b))]
    /\ MakeStabilizer(last.res, 1).val
         = XorVec(MakeStabilizer(last.a, 1).val, MakeStabilizer(last.b, 1).val)

\* C1 witness: X * Y has been computed and is i Z
TableReached ==
  /\ last.op = "mul"
  /\ last.a = SinglePauli("X")
  /\ last.b = SinglePauli("Y")
  /\ last.res = [SinglePauli("Z") EXCEPT !.coeff = ImagI]

\* C2: commutes returns true exactly when the symplectic product is 0
CommutesIffProductZero ==
  (last.op = "commutes" /\ last.err = "") => (last.flag <=> last.n = 0)

\* the non-identity qubits of a string
Support(p) == Range(p.xs) \cup Range(p.ys) \cup Range(p.zs)

Disjoint3(p) ==
  /\ Range(p.xs) \cap Range(p.ys) = {}
  /\ Range(p.xs) \cap Range(p.zs) = {}
  /\ Range(p.ys) \cap Range(p.zs) = {}

\* C10: every string a constructor, from_string, from_stabilizer or a product
\* returns has pairwise disjoint xs, ys and zs, and an index given to the
\* constructor in both xs and zs is in ys alone
AlwaysDisjoint ==
  /\ Disjoint3(cur)
  /\ (last.op = "init" /\ last.err = "") =>
       \A i \in Range(last.args.xs) \cap Range(last.args.zs) :
         /\ i \in Range(last.res.ys)
         /\ i \notin Range(last.res.xs)
         /\ i \notin Range(last.res.zs)

\* C9 witness: a triple of two-qubit strings whose products pick up a phase
AssocReached ==
  /\ last.op = "assoc"
  /\ last.a.qubit_width = 2
  /\ last.a.xs = <<0>> /\ last.a.zs = <<1>>
  /\ last.b.ys = <<0, 1>>
  /\ last.c.xs = <<0>> /\ last.c.ys = <<>> /\ last.c.zs = <<>>
  /\ last.res = last.res2
  /\ last.res.coeff # One

\* ----------------------------------------------------- operator-level properties
\* What the specification calls a key: the generator of a string, that is its xs, ys,
\* zs and qubit_width without the coefficient and without the object.
Gen(p) ==
  [xs |-> Range(p.xs), ys |-> Range(p.ys), zs |-> Range(p.zs), w |-> p.qubit_width]

Gens(d) == {Gen(d[k].key) : k \in DOMAIN d}

\* the sum of the coefficients a dict stores under generator g
RECURSIVE CoeffOf(_, _)
CoeffOf(d, g) ==
  IF d = <<>> THEN <<0, 0>>
  ELSE CAdd(IF Gen(Head(d).key) = g THEN Head(d).val ELSE <<0, 0>>,
            CoeffOf(Tail(d), g))

\* no two entries of the dict have the same generator
UniqueKeys(d) ==
  \A j \in DOMAIN d, k \in DOMAIN d : j # k => Gen(d[j].key) # Gen(d[k].key)

\* an operator as the data model describes it
WellFormed(P) ==
  /\ P.pairs # <<>>
  /\ UniqueKeys(P.pairs)
  /\ \A k \in DOMAIN P.pairs :
       P.pairs[k].key.coeff = One /\ P.pairs[k].key.qubit_width = P.num_qubits

\* the same generators with the same coefficients
SameMap(d, e) ==
  /\ Gens(d) = Gens(e)
  /\ \A g \in Gens(d) : CoeffOf(d, g) = CoeffOf(e, g)

\* the mapping the specification describes, keyed by generator
RefAccumulate(d, key, val) ==
  IF \E k \in DOMAIN d : Gen(d[k].key) = Gen(key)
    THEN [k \in DOMAIN d |->
            IF Gen(d[k].key) = Gen(key) THEN [d[k] EXCEPT !.val = CAdd(@, val)]
            ELSE d[k]]
    ELSE Append(d, [oid |-> Len(d) + 1, key |-> [key EXCEPT !.coeff = One],
                    val |-> val])

\* the union of keys with the coefficients of common keys summed
RECURSIVE RefAdd(_, _)
RefAdd(d, e) ==
  IF e = <<>> THEN d
  ELSE RefAdd(RefAccumulate(d, Head(e).key, Head(e).val), Tail(e))

\* the sum of c1 * c2 * phase(S1, S2) over the pairs, under the generator of
\* S1 * S2, from the k-th pair on
RECURSIVE RefMulFrom(_, _, _, _)
RefMulFrom(d, e, k, new) ==
  IF k > Len(d) * Len(e) THEN new
  ELSE LET i == ((k - 1) \div Len(e)) + 1
           j == ((k - 1) % Len(e)) + 1
           prod == Mul(d[i].key, e[j].key).val
       IN RefMulFrom(d, e, k + 1,
                     RefAccumulate(new, prod,
                                   CMul(CMul(d[i].val, e[j].val), prod.coeff)))

RefMul(d, e) == RefMulFrom(d, e, 1, <<>>)

RefConj(d) == [k \in DOMAIN d |-> [d[k] EXCEPT !.val = CConj(@)]]

\* the sum over i of (K_i * rho) * K_i-adjoint, from generator i on
RECURSIVE RefKrausFrom(_, _, _, _)
RefKrausFrom(list, rho, i, sum) ==
  IF i > Len(list) THEN sum
  ELSE RefKrausFrom(list, rho, i + 1,
                    RefAdd(sum, RefMul(RefMul(list[i].pairs, rho),
                                       RefConj(list[i].pairs))))

RefKraus(list, rho) == RefKrausFrom(list, rho, 1, <<>>)

\* the generators and the input of an application have one qubit width
OneWidth(list, n) == \A k \in DOMAIN list : list[k].num_qubits = n

\* C3: applying a KrausOperation with generators K_1..K_m to rho of their
\* width returns the PauliOperator sum over i of (K_i * rho) * K_i-adjoint; a
\* PauliString is taken as the one-term operator of that string
KrausApplies ==
  /\ (olast.op = "apply" /\ olast.list # <<>> /\ WellFormed(olast.a)
        /\ OneWidth(olast.list, olast.a.num_qubits)) =>
       /\ olast.err = ""
       /\ olast.kind = "operator"
       /\ SameMap(olast.res.pairs, RefKraus(olast.list, olast.a.pairs))
  /\ (olast.op = "apply_string" /\ olast.list # <<>> /\ olast.str.coeff = One
        /\ OneWidth(olast.list, olast.str.qubit_width)) =>
       /\ olast.err = ""
       /\ olast.kind = "operator"
       /\ SameMap(olast.res.pairs,
                  RefKraus(olast.list, <<[oid |-> 1, key |-> olast.str, val |-> One]>>))

\* C4: A * B of two operators of one width returns an operator with exactly
\* one key of coefficient 1 for each generator some pair produces, holding the
\* sum of c1 * c2 * phase over the pairs that produce it
OperatorProduct ==
  (olast.op = "mul" /\ WellFormed(olast.a) /\ WellFormed(olast.b)
     /\ olast.a.num_qubits = olast.b.num_qubits) =>
    /\ olast.err = ""
    /\ UniqueKeys(olast.res.pairs)
    /\ \A k \in DOMAIN olast.res.pairs : olast.res.pairs[k].key.coeff = One
    /\ SameMap(olast.res.pairs, RefMul(olast.a.pairs, olast.b.pairs))

\* C5: A + B has the union of the keys, one entry a generator, the
\* coefficients of common keys summed; P + P has the keys of P with doubled
\* coefficients; and A + B equals B + A
AdditionMerges ==
  (olast.op \in {"add", "add_self"} /\ WellFormed(olast.a) /\ WellFormed(olast.b)
     /\ olast.a.num_qubits = olast.b.num_qubits) =>
    /\ olast.err = ""
    /\ UniqueKeys(olast.res.pairs)
    /\ SameMap(olast.res.pairs, RefAdd(olast.a.pairs, olast.b.pairs))
    /\ olast.op = "add_self" =>
         /\ Len(olast.res.pairs) = Len(olast.a.pairs)
         /\ \A k \in DOMAIN olast.res.pairs :
              olast.res.pairs[k].val
                = CAdd(CoeffOf(olast.a.pairs, Gen(olast.res.pairs[k].key)),
                       CoeffOf(olast.a.pairs, Gen(olast.res.pairs[k].key)))
    /\ LET ba == OpAdd(olast.b, olast.a)
       IN ba.err = "" /\ SameMap(olast.res.pairs, ba.val.pairs)
                      /\ Len(olast.res.pairs) = Len(ba.val.pairs)

\* the generator of the identity on n qubits
IdentityGen(n) == [xs |-> {}, ys |-> {}, zs |-> {}, w |-> n]

\* C6: P + s and s + P return P with s added to the coefficient of the
\* identity key, which is created when P has none; nothing is raised
ScalarAddition ==
  (olast.op \in {"add_scalar", "radd_scalar"} /\ WellFormed(olast.a)) =>
    /\ olast.err = ""
    /\ UniqueKeys(olast.res.pairs)
    /\ Gens(olast.res.pairs)
         = Gens(olast.a.pairs) \cup {IdentityGen(olast.a.num_qubits)}
    /\ \A g \in Gens(olast.res.pairs) :
         CoeffOf(olast.res.pairs, g)
           = CAdd(CoeffOf(olast.a.pairs, g),
                  IF g = IdentityGen(olast.a.num_qubits) THEN olast.s ELSE <<0, 0>>)

\* C8: KrausOperation(list) raises when the list is empty or its generators
\* differ in qubit width, and only then
KrausValidates ==
  olast.op = "kraus_init" =>
    (olast.err = "" <=>
       /\ olast.list # <<>>
       /\ \A j \in DOMAIN olast.list, k \in DOMAIN olast.list :
            olast.list[j].num_qubits = olast.list[k].num_qubits)

====
